---- MODULE Spec2Model ----
(***************************************************************************)
(* A model of the ssv node's storage and validator runtime:                *)
(*   - the validators catalog (package storage): SaveValidatorInformation, *)
(*     GetValidatorInformation, ListValidators over a key-value store,     *)
(*     guarded by validatorsLock;                                          *)
(*   - the signer storage (package ekm): wallet, accounts, slashing        *)
(*     high-water marks and the at-rest encryption key, guarded by lock;   *)
(*   - the validator runtime (package validator): ProcessMsg, the worker   *)
(*     queue and messageHandler.                                           *)
(* The key-value store (basedb) is an external collaborator: it is         *)
(* modelled as a reliable map from (prefix, key) to value.                 *)
(***************************************************************************)
EXTENDS Integers, Sequences, FiniteSets, TLC

VARIABLES
    \* ---- validators catalog (package storage) ----
    vdb,             \* the store under storagePrefix(): key -> JSON value
    validatorsLock,  \* s.validatorsLock: the process holding it for writing
    vpc,             \* position of each process inside a catalog call
    vinfo,           \* the *ValidatorInformation a process passed to Save
    firstSaved,      \* history: public key -> the record its first save wrote
    \* ---- signer storage (package ekm) ----
    db,              \* the store: <<object prefix, key>> -> bytes
    encryptionKey,   \* s.encryptionKey
    lock,            \* s.lock: its writer and its readers
    call,            \* the signer-storage call a process is inside, with its locals
    written,         \* history: account id -> the account and key of its last
                     \* save, and whether another key was set since
    walletWrittenUnder, \* history: the key in force at the last SaveWallet
    proposed,        \* history: per public key, the slot of the last successful
                     \* SaveHighestProposal since its last removal (0: none),
                     \* and the highest slot ever saved for it
    \* ---- validator runtime (package validator) ----
    readMode,        \* v.readMode
    queue,           \* the messages waiting in v.worker
    consensusMsgs,   \* per role, the commit votes its instance has recorded
    decided,         \* per role, the value its instance decided, or Nil
    decidedReports,  \* history: per role, how often Decided was returned as true
    postConsensusSigs, \* per role, the signatures handed to signature collection
    status,          \* "running", or "panicked" once a goroutine panicked
    calls,           \* the number of ProcessMsg calls made
    \* ---- eth1 event (package eth1) ----
    ObserverList,    \* e.ObserverList: the subscribed observers, in order
    Log,             \* e.Log
    \* ---- shared observation ----
    ret              \* what the call that ended in the last step returned

catalogVars == <<vdb, validatorsLock, vpc, vinfo, firstSaved>>
signerVars == <<db, encryptionKey, lock, call, written, walletWrittenUnder, proposed>>
runtimeVars == <<readMode, queue, consensusMsgs, decided, decidedReports,
                 postConsensusSigs, status, calls>>
eventVars == <<ObserverList, Log>>
nonCatalogVars == <<signerVars, runtimeVars, eventVars>>
nonSignerVars == <<catalogVars, runtimeVars, eventVars>>
nonRuntimeVars == <<catalogVars, signerVars, eventVars>>
nonEventVars == <<catalogVars, signerVars, runtimeVars>>

vars == <<vdb, validatorsLock, vpc, vinfo, firstSaved,
          db, encryptionKey, lock, call, written, walletWrittenUnder, proposed,
          readMode, queue, consensusMsgs, decided, decidedReports,
          postConsensusSigs, status, calls, ObserverList, Log, ret>>

Procs == {"p1", "p2"}
NoProc == "none"
Nil == "nil"

(***************************************************************************)
(* The validators catalog                                                  *)
(***************************************************************************)

\* public keys in the byte order in which the store iterates its keys
PubKeyOrder == <<"pkA", "pkB", "pkC">>
PubKeys == {PubKeyOrder[i] : i \in DOMAIN PubKeyOrder}

OperatorLists ==
    { <<[ID |-> 1, PublicKey |-> "opA"]>>,
      <<[ID |-> 2, PublicKey |-> "opB"], [ID |-> 1, PublicKey |-> "opA"]>> }

\* the Index field a caller leaves in the record it passes to Save
CallerIndexes == {7}

\* the largest from/to argument of ListValidators that is tried
MaxRangeArg == 2
RangeArgs == 0 .. MaxRangeArg

validatorsPrefix == "validators"

validatorKey(pubKey) == <<validatorsPrefix, "/", pubKey>>

\* json.Marshal of a ValidatorInformation: the struct tags rename the fields
jsonMarshalValidator(vi) ==
    [index |-> vi.Index,
     publicKey |-> vi.PublicKey,
     operators |-> [i \in DOMAIN vi.Operators |->
                      [nodeId |-> vi.Operators[i].ID,
                       publicKey |-> vi.Operators[i].PublicKey]]]

\* json.Unmarshal into a ValidatorInformation
jsonUnmarshalValidator(raw) ==
    [Index |-> raw.index,
     PublicKey |-> raw.publicKey,
     Operators |-> [i \in DOMAIN raw.operators |->
                      [ID |-> raw.operators[i].nodeId,
                       PublicKey |-> raw.operators[i].publicKey]]]

\* s.db.Get(storagePrefix(), validatorKey(pk)) followed by json.Unmarshal
getValidatorInformationNotSafe(store, validatorPubKey) ==
    IF validatorKey(validatorPubKey) \notin DOMAIN store
    THEN [info |-> Nil, found |-> FALSE, err |-> Nil]
    ELSE [info |-> jsonUnmarshalValidator(store[validatorKey(validatorPubKey)]),
          found |-> TRUE, err |-> Nil]

\* the number of records stored under the collection prefix
nextIndex(store, prefix) ==
    Cardinality({k \in DOMAIN store : k[1] = prefix})

\* an upper bound of zero means no upper bound
normalTo(to) ==
    IF to = 0 THEN [bounded |-> FALSE, v |-> 0] ELSE [bounded |-> TRUE, v |-> to]

\* the range test with the upper comparison strict
InRangeStrict(index, from, nto) ==
    index >= from /\ (~nto.bounded \/ index < nto.v)

\* vi.Index >= from && vi.Index <= to, with to as normalTo returned it
InRange(index, from, nto) ==
    index >= from /\ (~nto.bounded \/ index <= nto.v)

\* the db.GetAll callback of ListValidators applied to the keys in order
RECURSIVE listScan(_, _, _, _)
listScan(store, i, from, nto) ==
    IF i > Len(PubKeyOrder) THEN <<>>
    ELSE LET k == validatorKey(PubKeyOrder[i])
             rest == listScan(store, i + 1, from, nto)
         IN IF k \notin DOMAIN store THEN rest
            ELSE LET vi == jsonUnmarshalValidator(store[k])
                 IN IF InRange(vi.Index, from, nto) THEN <<vi>> \o rest ELSE rest

NoReturn == [op |-> "none"]

InitCatalog ==
    /\ vdb = <<>>
    /\ validatorsLock = NoProc
    /\ vpc = [p \in Procs |-> "idle"]
    /\ vinfo = [p \in Procs |-> Nil]
    /\ firstSaved = <<>>

\* SaveValidatorInformation entered without waiting for validatorsLock
SaveValidatorInformationNoLock(p, vi) ==
    /\ vpc[p] = "idle"
    /\ validatorsLock' = validatorsLock
    /\ vinfo' = [vinfo EXCEPT ![p] = vi]
    /\ ret' = NoReturn
    /\ vpc' = [vpc EXCEPT ![p] =
                 IF getValidatorInformationNotSafe(vdb, vi.PublicKey).found
                 THEN "save_found" ELSE "save_next"]
    /\ UNCHANGED <<vdb, firstSaved>>
    /\ UNCHANGED nonCatalogVars

\* SaveValidatorInformation, lines 80-86: take the write lock and look the key up
SaveValidatorInformation(p, vi) ==
    /\ vpc[p] = "idle"
    /\ validatorsLock = NoProc
    /\ validatorsLock' = p
    /\ vinfo' = [vinfo EXCEPT ![p] = vi]
    /\ ret' = NoReturn
    /\ vpc' = [vpc EXCEPT ![p] =
                 IF getValidatorInformationNotSafe(vdb, vi.PublicKey).found
                 THEN "save_found" ELSE "save_next"]
    /\ UNCHANGED <<vdb, firstSaved>>
    /\ UNCHANGED nonCatalogVars

\* the deferred Unlock of a catalog writer
Unlock(p) == IF validatorsLock = p THEN NoProc ELSE validatorsLock

\* the found branch without the copy of the stored index
SaveFoundKeepIndex(p) ==
    /\ vpc[p] = "save_found"
    /\ validatorsLock' = Unlock(p)
    /\ vpc' = [vpc EXCEPT ![p] = "idle"]
    /\ vinfo' = [vinfo EXCEPT ![p] = Nil]
    /\ ret' = [op |-> "SaveValidatorInformation", info |-> vinfo[p], err |-> Nil]
    /\ UNCHANGED <<vdb, firstSaved>>
    /\ UNCHANGED nonCatalogVars

\* saveValidatorNotSafe: marshal the record and set it under its key
saveValidatorNotSafe(store, val) ==
    [k \in DOMAIN store \cup {validatorKey(val.PublicKey)} |->
        IF k = validatorKey(val.PublicKey) THEN jsonMarshalValidator(val) ELSE store[k]]

\* the found branch writing the passed record over the stored one
SaveFoundOverwrites(p) ==
    /\ vpc[p] = "save_found"
    /\ vdb' = saveValidatorNotSafe(vdb,
                 [vinfo[p] EXCEPT !.Index =
                     getValidatorInformationNotSafe(vdb, vinfo[p].PublicKey).info.Index])
    /\ validatorsLock' = Unlock(p)
    /\ vpc' = [vpc EXCEPT ![p] = "idle"]
    /\ vinfo' = [vinfo EXCEPT ![p] = Nil]
    /\ ret' = [op |-> "SaveValidatorInformation",
               info |-> [vinfo[p] EXCEPT !.Index =
                   getValidatorInformationNotSafe(vdb, vinfo[p].PublicKey).info.Index],
               err |-> Nil]
    /\ UNCHANGED firstSaved
    /\ UNCHANGED nonCatalogVars

\* lines 88-94: the key is stored already; copy its index and return nil
SaveFound(p) ==
    /\ vpc[p] = "save_found"
    /\ validatorsLock' = Unlock(p)
    /\ vpc' = [vpc EXCEPT ![p] = "idle"]
    /\ vinfo' = [vinfo EXCEPT ![p] = Nil]
    /\ ret' = [op |-> "SaveValidatorInformation",
               info |-> [vinfo[p] EXCEPT !.Index =
                   getValidatorInformationNotSafe(vdb, vinfo[p].PublicKey).info.Index],
               err |-> Nil]
    /\ UNCHANGED <<vdb, firstSaved>>
    /\ UNCHANGED nonCatalogVars

\* lines 95-98: a new key gets the next index
SaveNextIndex(p) ==
    /\ vpc[p] = "save_next"
    /\ vinfo' = [vinfo EXCEPT ![p].Index = nextIndex(vdb, validatorsPrefix)]
    /\ vpc' = [vpc EXCEPT ![p] = "save_set"]
    /\ ret' = NoReturn
    /\ UNCHANGED <<vdb, validatorsLock, firstSaved>>
    /\ UNCHANGED nonCatalogVars

\* lines 99-105: write the record, unlock, return nil
SaveSet(p) ==
    /\ vpc[p] = "save_set"
    /\ vdb' = saveValidatorNotSafe(vdb, vinfo[p])
    /\ firstSaved' = IF vinfo[p].PublicKey \in DOMAIN firstSaved THEN firstSaved
                     ELSE [pk \in DOMAIN firstSaved \cup {vinfo[p].PublicKey} |->
                             IF pk = vinfo[p].PublicKey THEN vinfo[p]
                             ELSE firstSaved[pk]]
    /\ validatorsLock' = Unlock(p)
    /\ vpc' = [vpc EXCEPT ![p] = "idle"]
    /\ vinfo' = [vinfo EXCEPT ![p] = Nil]
    /\ ret' = [op |-> "SaveValidatorInformation", info |-> vinfo[p], err |-> Nil]
    /\ UNCHANGED nonCatalogVars

\* ListValidators: one scan of the store under the read lock
ListValidators(p, from, to) ==
    /\ vpc[p] = "idle"
    /\ validatorsLock = NoProc
    /\ ret' =
                  [op |-> "ListValidators", from |-> from, to |-> to,
                   validators |-> listScan(vdb, 1, from, normalTo(to)),
                   err |-> Nil]
    /\ UNCHANGED <<vdb, validatorsLock, vpc, vinfo, firstSaved>>
    /\ UNCHANGED nonCatalogVars

\* GetValidatorInformation: one read of the store under the read lock
GetValidatorInformation(p, validatorPubKey) ==
    /\ vpc[p] = "idle"
    /\ validatorsLock = NoProc
    /\ ret' =
                  [op |-> "GetValidatorInformation", pubKey |-> validatorPubKey,
                   res |-> getValidatorInformationNotSafe(vdb, validatorPubKey)]
    /\ UNCHANGED <<vdb, validatorsLock, vpc, vinfo, firstSaved>>
    /\ UNCHANGED nonCatalogVars

ValidatorInformations ==
    [Index : CallerIndexes, PublicKey : PubKeys, Operators : OperatorLists]

NextCatalog ==
    \/ \E p \in Procs, vi \in ValidatorInformations : SaveValidatorInformation(p, vi)
    \/ \E p \in Procs : SaveFound(p)
    \/ \E p \in Procs : SaveNextIndex(p)
    \/ \E p \in Procs : SaveSet(p)
    \/ \E p \in Procs, from \in RangeArgs, to \in RangeArgs : ListValidators(p, from, to)
    \/ \E p \in Procs, pk \in PubKeys : GetValidatorInformation(p, pk)


(***************************************************************************)
(* The signer storage                                                      *)
(***************************************************************************)

prefix == "signer_data-"
walletPrefix == <<prefix, "wallet-">>
walletPath == "wallet"
accountsPrefix == <<prefix, "accounts-">>
highestAttPrefix == <<prefix, "highest_att-">>
\* the proposal prefix set to the attestation prefix
highestProposalPrefixOfAtt == highestAttPrefix

highestProposalPrefix == <<prefix, "highest_prop-">>

BeaconNetwork == "prater"

\* objPrefix: the network name followed by the object prefix
objPrefix(obj) == <<BeaconNetwork, obj>>

\* fmt.Sprintf(accountsPath, id): "accounts_<id>"
accountsPath(id) == <<"accounts_", id>>

\* a nil []byte, as opposed to the public keys below
NilBytes == "<nil>"
SigningKeys == {"pk1", "pk2"}

\* byte strings: clear bytes, or an AES-GCM sealing of clear bytes
Raw(bs) == [kind |-> "raw", bytes |-> bs]

NonceSize == 12
TagSize == 16

BLen(b) ==
    IF b.kind = "raw" THEN Len(b.bytes) ELSE NonceSize + Len(b.plain) + TagSize

\* db.Set, db.Delete, db.Get of the key-value store
Set(store, pfx, key, value) ==
    [k \in DOMAIN store \cup {<<pfx, key>>} |->
        IF k = <<pfx, key>> THEN value ELSE store[k]]

Delete(store, pfx, key) ==
    [k \in DOMAIN store \ {<<pfx, key>>} |-> store[k]]

Get(store, pfx, key) ==
    IF <<pfx, key>> \in DOMAIN store
    THEN [obj |-> store[<<pfx, key>>], found |-> TRUE, err |-> Nil]
    ELSE [obj |-> Raw(<<>>), found |-> FALSE, err |-> Nil]

\* sync.RWMutex
CanLock(l) == l.w = NoProc /\ l.r = {}
CanRLock(l) == l.w = NoProc
Idle(p) == call[p].op = "idle"
IdleCall == [op |-> "idle"]

(* ---- slashing high-water marks ---- *)

Slots == {0, 1, 100, 300}

\* ssz.MarshalUint64: eight bytes, little endian
RECURSIVE littleEndian(_, _)
littleEndian(v, n) ==
    IF n = 0 THEN <<>> ELSE <<v % 256>> \o littleEndian(v \div 256, n - 1)

MarshalUint64(v) == littleEndian(v, 8)

RECURSIVE littleEndianValue(_)
littleEndianValue(bs) ==
    IF bs = <<>> THEN 0 ELSE bs[1] + 256 * littleEndianValue(Tail(bs))

\* ssz.UnmarshallUint64: the value of the first eight bytes
UnmarshallUint64(bs) == littleEndianValue(SubSeq(bs, 1, 8))

ErrNilPubKeySave == "pubKey must not be nil"
ErrNilPubKeyRetrieve == "public key could not be nil"
ErrInvalidSlot == "invalid proposal slot, slot could not be 0"
ErrNilAttestation == "attestation data could not be nil"

\* SaveHighestProposal without the test of the slot
saveHighestProposalAnySlot(store, pubKey, slot) ==
    IF pubKey = NilBytes THEN [err |-> ErrNilPubKeySave, store |-> store]
    ELSE [err |-> Nil,
          store |-> Set(store, objPrefix(highestProposalPrefix), pubKey,
                        Raw(MarshalUint64(slot)))]

\* SaveHighestProposal that keeps the stored slot when it is the higher one
saveHighestProposalKeepsMax(store, pubKey, slot) ==
    IF pubKey = NilBytes THEN [err |-> ErrNilPubKeySave, store |-> store]
    ELSE IF slot = 0 THEN [err |-> ErrInvalidSlot, store |-> store]
    ELSE LET got == Get(store, objPrefix(highestProposalPrefix), pubKey)
         IN IF got.found /\ UnmarshallUint64(got.obj.bytes) > slot
            THEN [err |-> Nil, store |-> store]
            ELSE [err |-> Nil,
                  store |-> Set(store, objPrefix(highestProposalPrefix), pubKey,
                                Raw(MarshalUint64(slot)))]

\* the body of SaveHighestProposal: the error returned and the store left
saveHighestProposal(store, pubKey, slot) ==
    IF pubKey = NilBytes THEN [err |-> ErrNilPubKeySave, store |-> store]
    ELSE IF slot = 0 THEN [err |-> ErrInvalidSlot, store |-> store]
    ELSE [err |-> Nil,
          store |-> Set(store, objPrefix(highestProposalPrefix), pubKey,
                        Raw(MarshalUint64(slot)))]

SaveHighestProposal(p, pubKey, slot) ==
    /\ Idle(p)
    /\ CanLock(lock)
    /\ db' = saveHighestProposal(db, pubKey, slot).store
    /\ ret' = [op |-> "SaveHighestProposal", pubKey |-> pubKey, slot |-> slot,
               err |-> saveHighestProposal(db, pubKey, slot).err]
    /\ proposed' = IF saveHighestProposal(db, pubKey, slot).err = Nil
                   THEN [proposed EXCEPT ![pubKey] =
                            [last |-> slot,
                             max |-> IF slot > @.max THEN slot ELSE @.max]]
                   ELSE proposed
    /\ UNCHANGED <<encryptionKey, lock, call, written, walletWrittenUnder>>
    /\ UNCHANGED nonSignerVars

\* RetrieveHighestProposal reading under the attestation prefix
retrieveHighestProposalWrongPrefix(store, pubKey) ==
    IF pubKey = NilBytes
    THEN [slot |-> 0, found |-> FALSE, err |-> ErrNilPubKeyRetrieve]
    ELSE LET got == Get(store, objPrefix(highestAttPrefix), pubKey)
         IN IF ~got.found THEN [slot |-> 0, found |-> FALSE, err |-> Nil]
            ELSE [slot |-> UnmarshallUint64(got.obj.bytes), found |-> TRUE, err |-> Nil]

\* the body of RetrieveHighestProposal: (slot, found, error).  On an empty
\* value errors.Wrap wraps a nil error, which is nil.
retrieveHighestProposal(store, pubKey) ==
    IF pubKey = NilBytes
    THEN [slot |-> 0, found |-> FALSE, err |-> ErrNilPubKeyRetrieve]
    ELSE LET got == Get(store, objPrefix(highestProposalPrefix), pubKey)
         IN IF ~got.found THEN [slot |-> 0, found |-> FALSE, err |-> Nil]
            ELSE IF BLen(got.obj) = 0 THEN [slot |-> 0, found |-> TRUE, err |-> Nil]
            ELSE [slot |-> UnmarshallUint64(got.obj.bytes), found |-> TRUE, err |-> Nil]

RetrieveHighestProposal(p, pubKey) ==
    /\ Idle(p)
    /\ CanRLock(lock)
    /\ ret' = [op |-> "RetrieveHighestProposal", pubKey |-> pubKey,
               res |-> retrieveHighestProposal(db, pubKey)]
    /\ UNCHANGED signerVars
    /\ UNCHANGED nonSignerVars

RemoveHighestProposal(p, pubKey) ==
    /\ Idle(p)
    /\ CanLock(lock)
    /\ db' = Delete(db, objPrefix(highestProposalPrefix), pubKey)
    /\ ret' = [op |-> "RemoveHighestProposal", pubKey |-> pubKey, err |-> Nil]
    /\ proposed' = IF pubKey \in SigningKeys
                   THEN [proposed EXCEPT ![pubKey].last = 0]
                   ELSE proposed
    /\ UNCHANGED <<encryptionKey, lock, call, written, walletWrittenUnder>>
    /\ UNCHANGED nonSignerVars

\* phase0.AttestationData, by its slot and its source and target epochs
NilAttestation == [isNil |-> TRUE]
Attestations ==
    { [isNil |-> FALSE, Slot |-> 33, Source |-> 0, Target |-> 1],
      [isNil |-> FALSE, Slot |-> 65, Source |-> 1, Target |-> 2] }

\* AttestationData.MarshalSSZ: the fixed-size fields one after the other
MarshalSSZ(att) ==
    MarshalUint64(att.Slot) \o MarshalUint64(att.Source) \o MarshalUint64(att.Target)

\* AttestationData.UnmarshalSSZ
UnmarshalSSZ(bs) ==
    [isNil |-> FALSE,
     Slot |-> UnmarshallUint64(SubSeq(bs, 1, 8)),
     Source |-> UnmarshallUint64(SubSeq(bs, 9, 16)),
     Target |-> UnmarshallUint64(SubSeq(bs, 17, 24))]

saveHighestAttestation(store, pubKey, attestation) ==
    IF pubKey = NilBytes THEN [err |-> ErrNilPubKeySave, store |-> store]
    ELSE IF attestation.isNil THEN [err |-> ErrNilAttestation, store |-> store]
    ELSE [err |-> Nil,
          store |-> Set(store, objPrefix(highestAttPrefix), pubKey,
                        Raw(MarshalSSZ(attestation)))]

SaveHighestAttestation(p, pubKey, attestation) ==
    /\ Idle(p)
    /\ CanLock(lock)
    /\ db' = saveHighestAttestation(db, pubKey, attestation).store
    /\ ret' = [op |-> "SaveHighestAttestation", pubKey |-> pubKey,
               attestation |-> attestation,
               err |-> saveHighestAttestation(db, pubKey, attestation).err]
    /\ UNCHANGED <<encryptionKey, lock, call, written, walletWrittenUnder, proposed>>
    /\ UNCHANGED nonSignerVars

retrieveHighestAttestation(store, pubKey) ==
    IF pubKey = NilBytes
    THEN [att |-> NilAttestation, found |-> FALSE, err |-> ErrNilPubKeyRetrieve]
    ELSE LET got == Get(store, objPrefix(highestAttPrefix), pubKey)
         IN IF ~got.found THEN [att |-> NilAttestation, found |-> FALSE, err |-> Nil]
            ELSE IF BLen(got.obj) = 0
                 THEN [att |-> NilAttestation, found |-> TRUE, err |-> Nil]
            ELSE [att |-> UnmarshalSSZ(got.obj.bytes), found |-> TRUE, err |-> Nil]

RetrieveHighestAttestation(p, pubKey) ==
    /\ Idle(p)
    /\ CanRLock(lock)
    /\ ret' = [op |-> "RetrieveHighestAttestation", pubKey |-> pubKey,
               res |-> retrieveHighestAttestation(db, pubKey)]
    /\ UNCHANGED signerVars
    /\ UNCHANGED nonSignerVars

RemoveHighestAttestation(p, pubKey) ==
    /\ Idle(p)
    /\ CanLock(lock)
    /\ db' = Delete(db, objPrefix(highestAttPrefix), pubKey)
    /\ ret' = [op |-> "RemoveHighestAttestation", pubKey |-> pubKey, err |-> Nil]
    /\ UNCHANGED <<encryptionKey, lock, call, written, walletWrittenUnder, proposed>>
    /\ UNCHANGED nonSignerVars

InitSigner ==
    /\ db = <<>>
    /\ encryptionKey = ""
    /\ lock = [w |-> NoProc, r |-> {}]
    /\ call = [p \in Procs |-> IdleCall]
    /\ written = <<>>
    /\ walletWrittenUnder = Nil
    /\ proposed = [pk \in SigningKeys |-> [last |-> 0, max |-> 0]]

PubKeyArgs == SigningKeys \cup {NilBytes}

NextSlashing ==
    \/ \E p \in Procs, pk \in PubKeyArgs, slot \in Slots : SaveHighestProposal(p, pk, slot)
    \/ \E p \in Procs, pk \in PubKeyArgs : RetrieveHighestProposal(p, pk)
    \/ \E p \in Procs, pk \in PubKeyArgs : RemoveHighestProposal(p, pk)
    \/ \E p \in Procs, pk \in PubKeyArgs, att \in Attestations \cup {NilAttestation} :
          SaveHighestAttestation(p, pk, att)
    \/ \E p \in Procs, pk \in PubKeyArgs : RetrieveHighestAttestation(p, pk)
    \/ \E p \in Procs, pk \in PubKeyArgs : RemoveHighestAttestation(p, pk)


(* ---- encryption at rest ---- *)

EncryptionKeys == {"", "k1", "k2"}

\* the nonces rand.Reader may deliver
Nonces == {1, 2}

\* createHash: the hex md5 of the passphrase, distinct for distinct passphrases
createHash(key) == <<"md5", key>>

\* encrypt: gcm.Seal(nonce, nonce, data, nil) under the hashed passphrase,
\* the nonce prepended to the ciphertext
encrypt(data, passphrase, nonce) ==
    [kind |-> "gcm", nonce |-> nonce, key |-> createHash(passphrase),
     plain |-> data.bytes]

\* decrypt returning the bytes after the nonce without opening them
decryptNoOpen(data, passphrase) ==
    IF BLen(data) < NonceSize
    THEN [data |-> Raw(<<>>), err |-> "malformed ciphertext"]
    ELSE [data |-> data, err |-> Nil]

\* decrypt: split off the nonce and gcm.Open the rest; Open authenticates,
\* so it succeeds only on a sealing made under the same hashed passphrase
decrypt(data, passphrase) ==
    IF BLen(data) < NonceSize
    THEN [data |-> Raw(<<>>), err |-> "malformed ciphertext"]
    ELSE IF data.kind = "gcm" /\ data.key = createHash(passphrase)
    THEN [data |-> Raw(data.plain), err |-> Nil]
    ELSE [data |-> Raw(<<>>), err |-> "cipher: message authentication failed"]

ErrFailedToDecrypt == "failed to decrypt wallet"

decryptData(objectValue, key) ==
    IF key # ""
    THEN IF decrypt(objectValue, key).err # Nil
         THEN [data |-> Raw(<<>>), err |-> ErrFailedToDecrypt]
         ELSE decrypt(objectValue, key)
    ELSE [data |-> objectValue, err |-> Nil]

\* encryptData leaving the value in the clear whatever the key
encryptDataClear(objectValue, key, nonce) == objectValue

encryptData(objectValue, key, nonce) ==
    IF key # "" THEN encrypt(objectValue, key, nonce) ELSE objectValue

(* ---- wallet and accounts ---- *)

\* accounts by id, in the order in which the store iterates their keys
AccountOrder == <<1, 2>>
AccountIDs == {AccountOrder[i] : i \in DOMAIN AccountOrder}
AccountNames == {1, 2}
Accounts == [ID : AccountIDs, Name : AccountNames]
NoAccount == [ID |-> 0, Name |-> 0]
Wallets == {[ID |-> 1]}
NoWallet == [ID |-> 0]

\* json.Marshal of an account: the text {"id":I,"n":N}
jsonMarshalAccount(a) ==
    Raw(<<123, 34, 105, 100, 34, 58, 48 + a.ID, 44, 34, 110, 34, 58, 48 + a.Name, 125>>)

\* json.Unmarshal into an account
jsonUnmarshalAccount(bs) ==
    IF /\ Len(bs) = 14
       /\ SubSeq(bs, 1, 6) = <<123, 34, 105, 100, 34, 58>>
       /\ SubSeq(bs, 8, 12) = <<44, 34, 110, 34, 58>>
       /\ bs[14] = 125
       /\ bs[7] \in 48 .. 57
       /\ bs[13] \in 48 .. 57
    THEN [ok |-> TRUE, account |-> [ID |-> bs[7] - 48, Name |-> bs[13] - 48]]
    ELSE [ok |-> FALSE, account |-> NoAccount]

\* json.Marshal of a wallet: the text {"id":W}
jsonMarshalWallet(w) == Raw(<<123, 34, 105, 100, 34, 58, 48 + w.ID, 125>>)

jsonUnmarshalWallet(bs) ==
    IF /\ Len(bs) = 8
       /\ SubSeq(bs, 1, 6) = <<123, 34, 105, 100, 34, 58>>
       /\ bs[7] \in 48 .. 57
       /\ bs[8] = 125
    THEN [ok |-> TRUE, wallet |-> [ID |-> bs[7] - 48]]
    ELSE [ok |-> FALSE, wallet |-> NoWallet]

ErrCantDecrypt == "can't decrypt stored wallet, wrong password?"
ErrAccountNotFound == "account not found"
ErrUnmarshalAccount == "failed to unmarshal HD account object"
ErrBytesEmpty == "bytes are empty"

\* decodeAccount: sealed bytes are no JSON text
decodeAccount(byts) ==
    IF BLen(byts) = 0 THEN [account |-> NoAccount, err |-> ErrBytesEmpty]
    ELSE IF byts.kind = "raw" /\ jsonUnmarshalAccount(byts.bytes).ok
    THEN [account |-> jsonUnmarshalAccount(byts.bytes).account, err |-> Nil]
    ELSE [account |-> NoAccount, err |-> ErrUnmarshalAccount]

\* SetEncryptionKey writing the key without taking the lock
\* the history of the saved accounts after the key is set to newKey
Rekeyed(newKey) ==
    [id \in DOMAIN written |->
        [written[id] EXCEPT !.rekeyed = @ \/ newKey # written[id].key]]

SetEncryptionKeyNoLock(p, newKey) ==
    /\ Idle(p)
    /\ encryptionKey' = newKey
    /\ written' = Rekeyed(newKey)
    /\ ret' = [op |-> "SetEncryptionKey", key |-> newKey]
    /\ UNCHANGED <<db, lock, call, walletWrittenUnder, proposed>>
    /\ UNCHANGED nonSignerVars

\* SetEncryptionKey that seals the stored accounts again under the new key
SetEncryptionKeyReseals(p, newKey) ==
    /\ Idle(p)
    /\ CanLock(lock)
    /\ encryptionKey' = newKey
    /\ db' = [k \in DOMAIN db |->
                IF \E id \in DOMAIN written :
                       k = <<objPrefix(accountsPrefix), accountsPath(id)>>
                THEN encryptData(decryptData(db[k], encryptionKey).data, newKey, 1)
                ELSE db[k]]
    /\ written' = Rekeyed(newKey)
    /\ ret' = [op |-> "SetEncryptionKey", key |-> newKey]
    /\ UNCHANGED <<lock, call, walletWrittenUnder, proposed>>
    /\ UNCHANGED nonSignerVars

SetEncryptionKey(p, newKey) ==
    /\ Idle(p)
    /\ CanLock(lock)
    /\ encryptionKey' = newKey
    /\ written' = Rekeyed(newKey)
    /\ ret' = [op |-> "SetEncryptionKey", key |-> newKey]
    /\ UNCHANGED <<db, lock, call, walletWrittenUnder, proposed>>
    /\ UNCHANGED nonSignerVars

SaveWallet(p, wallet) ==
    /\ Idle(p)
    /\ CanLock(lock)
    /\ db' = Set(db, objPrefix(walletPrefix), walletPath, jsonMarshalWallet(wallet))
    /\ walletWrittenUnder' = encryptionKey
    /\ ret' = [op |-> "SaveWallet", wallet |-> wallet, err |-> Nil]
    /\ UNCHANGED <<encryptionKey, lock, call, written, proposed>>
    /\ UNCHANGED nonSignerVars

openWallet(store) ==
    LET got == Get(store, objPrefix(walletPrefix), walletPath)
    IN IF ~got.found THEN [wallet |-> NoWallet, err |-> "could not find wallet"]
       ELSE IF BLen(got.obj) = 0 THEN [wallet |-> NoWallet, err |-> "failed to open wallet"]
       ELSE IF got.obj.kind = "raw" /\ jsonUnmarshalWallet(got.obj.bytes).ok
       THEN [wallet |-> jsonUnmarshalWallet(got.obj.bytes).wallet, err |-> Nil]
       ELSE [wallet |-> NoWallet, err |-> "failed to unmarshal HD Wallet object"]

OpenWallet(p) ==
    /\ Idle(p)
    /\ CanRLock(lock)
    /\ ret' = [op |-> "OpenWallet", res |-> openWallet(db)]
    /\ UNCHANGED signerVars
    /\ UNCHANGED nonSignerVars

\* SaveAccount, lines 156-164: take the lock, marshal the account, build the key
SaveAccount(p, account) ==
    /\ Idle(p)
    /\ CanLock(lock)
    /\ lock' = [lock EXCEPT !.w = p]
    /\ call' = [call EXCEPT ![p] = [op |-> "SaveAccount", account |-> account,
                                    data |-> jsonMarshalAccount(account)]]
    /\ ret' = NoReturn
    /\ UNCHANGED <<db, encryptionKey, written, walletWrittenUnder, proposed>>
    /\ UNCHANGED nonSignerVars

\* SaveAccount, lines 166-170: seal the bytes, set them, unlock
SaveAccountSet(p) ==
    /\ call[p].op = "SaveAccount"
    /\ \E nonce \in Nonces :
          db' = Set(db, objPrefix(accountsPrefix), accountsPath(call[p].account.ID),
                    encryptData(call[p].data, encryptionKey, nonce))
    /\ written' = [id \in DOMAIN written \cup {call[p].account.ID} |->
                     IF id = call[p].account.ID
                     THEN [account |-> call[p].account, key |-> encryptionKey,
                           rekeyed |-> FALSE]
                     ELSE written[id]]
    /\ lock' = [lock EXCEPT !.w = IF lock.w = p THEN NoProc ELSE lock.w]
    /\ call' = [call EXCEPT ![p] = IdleCall]
    /\ ret' = [op |-> "SaveAccount", account |-> call[p].account, err |-> Nil,
               key |-> encryptionKey]
    /\ UNCHANGED <<encryptionKey, walletWrittenUnder, proposed>>
    /\ UNCHANGED nonSignerVars

DeleteAccount(p, accountID) ==
    /\ Idle(p)
    /\ CanLock(lock)
    /\ db' = Delete(db, objPrefix(accountsPrefix), accountsPath(accountID))
    /\ written' = [id \in DOMAIN written \ {accountID} |-> written[id]]
    /\ ret' = [op |-> "DeleteAccount", id |-> accountID, err |-> Nil]
    /\ UNCHANGED <<encryptionKey, lock, call, walletWrittenUnder, proposed>>
    /\ UNCHANGED nonSignerVars

\* OpenAccount, lines 186-198: take the read lock and get the account bytes
OpenAccount(p, accountID) ==
    /\ Idle(p)
    /\ CanRLock(lock)
    /\ LET got == Get(db, objPrefix(accountsPrefix), accountsPath(accountID))
       IN IF ~got.found
          THEN /\ ret' = [op |-> "OpenAccount", id |-> accountID, found |-> FALSE,
                          account |-> NoAccount, err |-> ErrAccountNotFound,
                          key |-> encryptionKey]
               /\ UNCHANGED <<lock, call>>
          ELSE /\ ret' = NoReturn
               /\ lock' = [lock EXCEPT !.r = @ \cup {p}]
               /\ call' = [call EXCEPT ![p] = [op |-> "OpenAccount", id |-> accountID,
                                               obj |-> got.obj]]
    /\ UNCHANGED <<db, encryptionKey, written, walletWrittenUnder, proposed>>
    /\ UNCHANGED nonSignerVars

\* the result of OpenAccount on the bytes it got, under the key in force
openAccountResult(obj, key) ==
    IF decryptData(obj, key).err # Nil
    THEN [account |-> NoAccount, err |-> ErrCantDecrypt]
    ELSE decodeAccount(decryptData(obj, key).data)

\* OpenAccount, lines 199-203: decrypt, decode, unlock
OpenAccountDecrypt(p) ==
    /\ call[p].op = "OpenAccount"
    /\ ret' = [op |-> "OpenAccount", id |-> call[p].id, found |-> TRUE,
               account |-> openAccountResult(call[p].obj, encryptionKey).account,
               err |-> openAccountResult(call[p].obj, encryptionKey).err,
               key |-> encryptionKey]
    /\ lock' = [lock EXCEPT !.r = @ \ {p}]
    /\ call' = [call EXCEPT ![p] = IdleCall]
    /\ UNCHANGED <<db, encryptionKey, written, walletWrittenUnder, proposed>>
    /\ UNCHANGED nonSignerVars

\* ListAccounts, lines 133-138: take the read lock and start the scan
ListAccounts(p) ==
    /\ Idle(p)
    /\ CanRLock(lock)
    /\ lock' = [lock EXCEPT !.r = @ \cup {p}]
    /\ call' = [call EXCEPT ![p] = [op |-> "ListAccounts", i |-> 1, ret |-> <<>>,
                                    keysRead |-> {}]]
    /\ ret' = NoReturn
    /\ UNCHANGED <<db, encryptionKey, written, walletWrittenUnder, proposed>>
    /\ UNCHANGED nonSignerVars

\* the positions in AccountOrder, from i on, of the accounts the store holds
Remaining(store, i) ==
    {j \in i .. Len(AccountOrder) :
        <<objPrefix(accountsPrefix), accountsPath(AccountOrder[j])>> \in DOMAIN store}

Least(S) == CHOOSE j \in S : \A k \in S : j <= k

\* ListAccounts, lines 138-149: the callback on the next stored account; an
\* error ends the scan and is returned with the accounts collected so far
ListAccountsNext(p) ==
    /\ call[p].op = "ListAccounts"
    /\ Remaining(db, call[p].i) # {}
    /\ LET j == Least(Remaining(db, call[p].i))
           obj == db[<<objPrefix(accountsPrefix), accountsPath(AccountOrder[j])>>]
           value == decryptData(obj, encryptionKey)
           acc == decodeAccount(value.data)
           keys == call[p].keysRead \cup {encryptionKey}
       IN IF value.err # Nil \/ acc.err # Nil
          THEN /\ ret' = [op |-> "ListAccounts", accounts |-> call[p].ret,
                          err |-> IF value.err # Nil THEN value.err
                                  ELSE "failed to list accounts",
                          failedID |-> AccountOrder[j],
                          keysRead |-> keys, key |-> encryptionKey]
               /\ lock' = [lock EXCEPT !.r = @ \ {p}]
               /\ call' = [call EXCEPT ![p] = IdleCall]
          ELSE /\ ret' = NoReturn
               /\ call' = [call EXCEPT ![p].i = j + 1,
                                       ![p].ret = Append(@, acc.account),
                                       ![p].keysRead = keys]
               /\ UNCHANGED lock
    /\ UNCHANGED <<db, encryptionKey, written, walletWrittenUnder, proposed>>
    /\ UNCHANGED nonSignerVars

\* ListAccounts, lines 151: the scan is over; unlock and return the accounts
ListAccountsDone(p) ==
    /\ call[p].op = "ListAccounts"
    /\ Remaining(db, call[p].i) = {}
    /\ ret' = [op |-> "ListAccounts", accounts |-> call[p].ret, err |-> Nil,
               failedID |-> 0, keysRead |-> call[p].keysRead, key |-> encryptionKey]
    /\ lock' = [lock EXCEPT !.r = @ \ {p}]
    /\ call' = [call EXCEPT ![p] = IdleCall]
    /\ UNCHANGED <<db, encryptionKey, written, walletWrittenUnder, proposed>>
    /\ UNCHANGED nonSignerVars

NextAccounts ==
    \/ \E p \in Procs, k \in EncryptionKeys : SetEncryptionKey(p, k)
    \/ \E p \in Procs, w \in Wallets : SaveWallet(p, w)
    \/ \E p \in Procs : OpenWallet(p)
    \/ \E p \in Procs, a \in Accounts : SaveAccount(p, a)
    \/ \E p \in Procs : SaveAccountSet(p)
    \/ \E p \in Procs, id \in AccountIDs : DeleteAccount(p, id)
    \/ \E p \in Procs, id \in AccountIDs : OpenAccount(p, id)
    \/ \E p \in Procs : OpenAccountDecrypt(p)
    \/ \E p \in Procs : ListAccounts(p)
    \/ \E p \in Procs : ListAccountsNext(p)
    \/ \E p \in Procs : ListAccountsDone(p)


(***************************************************************************)
(* The validator runtime                                                   *)
(***************************************************************************)

\* worker.Config.Buffer
Buffer == 100
\* the number of ProcessMsg calls that are made with any message
MaxProcessMsg == 2
\* the number of ProcessMsg calls of one producer that sends one message
\* over and over: more than the worker's buffer holds
MaxFlood == 101

RoleTypeAttester == "ATTESTER"
RoleTypeProposer == "PROPOSER"
Roles == {RoleTypeAttester, RoleTypeProposer}

SSVConsensusMsgType == "SSVConsensusMsgType"
SSVPostConsensusMsgType == "SSVPostConsensusMsgType"
SSVSyncMsgType == "SSVSyncMsgType"
MsgTypes == {SSVConsensusMsgType, SSVPostConsensusMsgType, SSVSyncMsgType, "unknown"}

\* an SSVMessage: its type, the role of its identifier, whether it passes
\* validateMessage and whether its data decodes
Messages == [type : MsgTypes, role : Roles, valid : BOOLEAN, wellFormed : BOOLEAN]

NoController == "nil"

\* setupIbfts: a controller for the attester role only
setupIbfts == [role \in {RoleTypeAttester} |-> "controller"]

\* Controllers.ControllerForIdentifier: c[role], nil for a role not in the map
ControllerForIdentifier(c, role) ==
    IF role \in DOMAIN c THEN c[role] ELSE NoController

\* validateMessage: an error for a message that is not valid
validateMessage(msg) == IF msg.valid THEN Nil ELSE "message validation failed"

\* SignedMessage.Decode, SignedPostConsensusMessage.Decode
Decode(msg) == IF msg.wellFormed THEN Nil ELSE "decode failed"

\* the commit votes that decide an instance: 2f+1 of 3f+1 operators, f = 1
Quorum == 3
\* the value the duty's instance was started with
DutyValue == "value"

\* an instance that returns Decided as true for every commit vote that finds
\* the quorum reached
processConsensusMsgReportsAgain(ctrl, msg, consensus, dec) ==
    IF ctrl = NoController
    THEN [consensus |-> consensus, decided |-> dec, report |-> FALSE]
    ELSE IF dec[msg.role] # Nil
    THEN [consensus |-> consensus, decided |-> dec, report |-> TRUE]
    ELSE [consensus |-> [consensus EXCEPT ![msg.role] = @ + 1],
          decided |-> IF consensus[msg.role] + 1 >= Quorum
                      THEN [dec EXCEPT ![msg.role] = DutyValue] ELSE dec,
          report |-> consensus[msg.role] + 1 >= Quorum]

\* processConsensusMsg: hand the message to the controller's instance; a nil
\* controller means the message is dropped. The instance records the commit
\* vote; the vote that completes the quorum decides it and Decided is
\* returned as true; a vote after the decision is accepted without effect.
processConsensusMsg(ctrl, msg, consensus, dec) ==
    IF ctrl = NoController \/ dec[msg.role] # Nil
    THEN [consensus |-> consensus, decided |-> dec, report |-> FALSE]
    ELSE [consensus |-> [consensus EXCEPT ![msg.role] = @ + 1],
          decided |-> IF consensus[msg.role] + 1 >= Quorum
                      THEN [dec EXCEPT ![msg.role] = DutyValue] ELSE dec,
          report |-> consensus[msg.role] + 1 >= Quorum]

\* processPostConsensusSig: hand the signature to signature collection
processPostConsensusSig(ctrl, msg, sigs) ==
    IF ctrl = NoController THEN sigs
    ELSE [sigs EXCEPT ![msg.role] = @ + 1]

\* a messageHandler that forwards the payload whether it decoded or not
messageHandlerIgnoresDecode(msg, consensus, dec, sigs) ==
    LET ibftController == ControllerForIdentifier(setupIbfts, msg.role)
        same == [outcome |-> "returned", err |-> Nil, dispatched |-> "none",
                 ctrl |-> ibftController, report |-> FALSE,
                 consensus |-> consensus, decided |-> dec, sigs |-> sigs]
        c == processConsensusMsg(ibftController, msg, consensus, dec)
    IN IF validateMessage(msg) # Nil THEN same
       ELSE IF msg.type = SSVConsensusMsgType
       THEN [same EXCEPT !.dispatched = "processConsensusMsg",
                         !.consensus = c.consensus,
                         !.decided = c.decided,
                         !.report = c.report]
       ELSE IF msg.type = SSVPostConsensusMsgType
       THEN [same EXCEPT !.dispatched = "processPostConsensusSig",
                         !.sigs = processPostConsensusSig(ibftController, msg, sigs)]
       ELSE IF msg.type = SSVSyncMsgType
       THEN [same EXCEPT !.outcome = "panic"]
       ELSE same

\* messageHandler: how it ends (it returns, or it panics), the error it
\* returns, the function it forwarded the message to and the controller it
\* passed, and the controller and signature state it leaves
messageHandler(msg, consensus, dec, sigs) ==
    LET ibftController == ControllerForIdentifier(setupIbfts, msg.role)
        same == [outcome |-> "returned", err |-> Nil, dispatched |-> "none",
                 ctrl |-> ibftController, report |-> FALSE,
                 consensus |-> consensus, decided |-> dec, sigs |-> sigs]
        c == processConsensusMsg(ibftController, msg, consensus, dec)
    IN IF validateMessage(msg) # Nil THEN same
       ELSE IF msg.type = SSVConsensusMsgType
       THEN IF Decode(msg) # Nil
            THEN [same EXCEPT !.err = "could not get post consensus Message from SSVMessage"]
            ELSE [same EXCEPT !.dispatched = "processConsensusMsg",
                              !.consensus = c.consensus,
                              !.decided = c.decided,
                              !.report = c.report]
       ELSE IF msg.type = SSVPostConsensusMsgType
       THEN IF Decode(msg) # Nil
            THEN [same EXCEPT !.err = "could not get post consensus Message from network Message"]
            ELSE [same EXCEPT !.dispatched = "processPostConsensusSig",
                              !.sigs = processPostConsensusSig(ibftController, msg, sigs)]
       ELSE IF msg.type = SSVSyncMsgType
       THEN [same EXCEPT !.outcome = "panic"]
       ELSE same

\* an enqueue that takes no notice of the buffer's size
TryEnqueueUnbounded(q, msg) == [queue |-> Append(q, msg), ok |-> TRUE]

\* worker.TryEnqueue: append unless the buffer is full; never blocks
TryEnqueue(q, msg) ==
    IF Len(q) < Buffer THEN [queue |-> Append(q, msg), ok |-> TRUE]
    ELSE [queue |-> q, ok |-> FALSE]

InitRuntime ==
    /\ readMode \in BOOLEAN
    /\ queue = <<>>
    /\ consensusMsgs = [r \in Roles |-> 0]
    /\ decided = [r \in Roles |-> Nil]
    /\ decidedReports = [r \in Roles |-> 0]
    /\ postConsensusSigs = [r \in Roles |-> 0]
    /\ status = "running"
    /\ calls = 0

\* ProcessMsg: in read-mode the handler runs inline, otherwise the message
\* is put on the worker's queue. The switch of lines 113-118 names an
\* AttestQueue and a proposeQueue that the Validator has not got and has no
\* case expressions; line 119, after it, hands every message to v.worker,
\* whatever its identifier, and drops TryEnqueue's result.
ProcessMsg(msg) ==
    /\ status = "running"
    /\ calls' = calls + 1
    /\ IF readMode
       THEN LET h == messageHandler(msg, consensusMsgs, decided, postConsensusSigs)
            IN /\ consensusMsgs' = h.consensus
               /\ decided' = h.decided
               /\ decidedReports' = IF h.report
                                    THEN [decidedReports EXCEPT ![msg.role] = @ + 1]
                                    ELSE decidedReports
               /\ postConsensusSigs' = h.sigs
               /\ status' = IF h.outcome = "panic" THEN "panicked" ELSE status
               /\ ret' = [op |-> "ProcessMsg", msg |-> msg, outcome |-> h.outcome,
                          handled |-> h.outcome = "returned", enqueued |-> FALSE,
                          on |-> {}, dispatched |-> h.dispatched, ctrl |-> h.ctrl,
                          err |-> h.err, report |-> h.report]
               /\ UNCHANGED queue
       ELSE /\ queue' = TryEnqueue(queue, msg).queue
            /\ ret' = [op |-> "ProcessMsg", msg |-> msg, outcome |-> "returned",
                       handled |-> FALSE, enqueued |-> TryEnqueue(queue, msg).ok,
                       on |-> {"worker"}, dispatched |-> "none", ctrl |-> NoController,
                       err |-> Nil, report |-> FALSE]
            /\ UNCHANGED <<consensusMsgs, decided, decidedReports,
                           postConsensusSigs, status>>
    /\ UNCHANGED readMode
    /\ UNCHANGED nonRuntimeVars

\* the worker started by Start takes the next message off the queue and
\* runs messageHandler on it
WorkerHandle ==
    /\ status = "running"
    /\ queue # <<>>
    /\ LET h == messageHandler(Head(queue), consensusMsgs, decided, postConsensusSigs)
       IN /\ consensusMsgs' = h.consensus
          /\ decided' = h.decided
          /\ decidedReports' = IF h.report
                               THEN [decidedReports EXCEPT ![Head(queue).role] = @ + 1]
                               ELSE decidedReports
          /\ postConsensusSigs' = h.sigs
          /\ status' = IF h.outcome = "panic" THEN "panicked" ELSE status
          /\ ret' = [op |-> "messageHandler", msg |-> Head(queue),
                     outcome |-> h.outcome, err |-> h.err,
                     dispatched |-> h.dispatched, ctrl |-> h.ctrl,
                     report |-> h.report]
    /\ queue' = Tail(queue)
    /\ UNCHANGED <<readMode, calls>>
    /\ UNCHANGED nonRuntimeVars

\* the network hands the validator up to MaxProcessMsg messages of any kind
NextRuntime ==
    \/ \E msg \in Messages : calls < MaxProcessMsg /\ ProcessMsg(msg)
    \/ WorkerHandle

\* the message of the flood: a valid, well-formed consensus message of the
\* attester duty
FloodMessages ==
    {msg \in Messages : /\ msg.type = SSVConsensusMsgType
                        /\ msg.role = RoleTypeAttester
                        /\ msg.valid /\ msg.wellFormed}

\* one producer sends MaxFlood messages of the attester duty, and then the
\* network hands the validator one message of any kind
NextFlood ==
    \/ \E msg \in FloodMessages : calls < MaxFlood /\ ProcessMsg(msg)
    \/ \E msg \in Messages :
          /\ MaxFlood <= calls
          /\ calls < MaxFlood + 1
          /\ ProcessMsg(msg)
    \/ WorkerHandle

(***************************************************************************)
(* The eth1 event                                                          *)
(***************************************************************************)

Observers == {"o1", "o2", "o3"}
\* the zero types.Log of a new event
ZeroLog == 0
Logs == {ZeroLog, 1, 2}

\* NewEvent: no observers, the zero Log
InitEvent ==
    /\ ObserverList = <<>>
    /\ Log = ZeroLog

\* the loop of NotifyAll from entry i on, but for the last observer
notifyFromButLast(list, i, log) ==
    [k \in 1 .. (IF Len(list) - i < 0 THEN 0 ELSE Len(list) - i) |->
        [observer |-> list[i + k - 1], log |-> log]]

\* the loop of NotifyAll from entry i on: the Update calls it makes, in order
RECURSIVE notifyFrom(_, _, _)
notifyFrom(list, i, log) ==
    IF i > Len(list) THEN <<>>
    ELSE <<[observer |-> list[i], log |-> log]>> \o notifyFrom(list, i + 1, log)

\* NotifyAll: observer.Update(e.Log) for each entry of e.ObserverList
NotifyAll ==
    /\ ret' = [op |-> "NotifyAll", updates |-> notifyFrom(ObserverList, 1, Log)]
    /\ UNCHANGED <<ObserverList, Log>>
    /\ UNCHANGED nonEventVars

\* an observer that is not subscribed yet is added to the list
RegisterObserver(o) ==
    /\ \A i \in DOMAIN ObserverList : ObserverList[i] # o
    /\ ObserverList' = Append(ObserverList, o)
    /\ ret' = [op |-> "RegisterObserver", observer |-> o]
    /\ UNCHANGED Log
    /\ UNCHANGED nonEventVars

\* the entries of a list that are not o, in order
RECURSIVE without(_, _)
without(list, o) ==
    IF list = <<>> THEN <<>>
    ELSE IF Head(list) = o THEN without(Tail(list), o)
    ELSE <<Head(list)>> \o without(Tail(list), o)

\* a subscribed observer is taken off the list
DeregisterObserver(o) ==
    /\ \E i \in DOMAIN ObserverList : ObserverList[i] = o
    /\ ObserverList' = without(ObserverList, o)
    /\ ret' = [op |-> "DeregisterObserver", observer |-> o]
    /\ UNCHANGED Log
    /\ UNCHANGED nonEventVars

\* e.Log = log: the event's owner sets the log to be sent
SetLog(log) ==
    /\ Log' = log
    /\ ret' = [op |-> "SetLog", log |-> log]
    /\ UNCHANGED ObserverList
    /\ UNCHANGED nonEventVars

NextEvent ==
    \/ \E o \in Observers : RegisterObserver(o)
    \/ \E o \in Observers : DeregisterObserver(o)
    \/ \E log \in Logs : SetLog(log)
    \/ NotifyAll

Init == InitCatalog /\ InitSigner /\ InitRuntime /\ InitEvent /\ ret = NoReturn

\* the stores' specifications start with the validator in normal mode; the
\* runtime's own starts in either mode
InitStores == Init /\ ~readMode

SpecRuntime == Init /\ [][NextRuntime]_vars

SpecFlood == Init /\ [][NextFlood]_vars

\* the worker's goroutine keeps running: a message on the queue is taken
\* off it sooner or later
SpecRuntimeLive == Init /\ [][NextRuntime]_vars /\ WF_vars(WorkerHandle)

SpecCatalog == InitStores /\ [][NextCatalog]_vars

SpecSlashing == InitStores /\ [][NextSlashing]_vars

SpecAccounts == InitStores /\ [][NextAccounts]_vars

SpecEvent == InitStores /\ [][NextEvent]_vars

Next ==
    NextCatalog \/ NextSlashing \/ NextAccounts \/ NextRuntime \/ NextFlood \/ NextEvent

Spec == Init /\ [][Next]_vars

(***************************************************************************)
(* Properties of the validators catalog                                    *)
(***************************************************************************)

StoredValidator(k) == jsonUnmarshalValidator(vdb[k])
StoredValidators == {StoredValidator(k) : k \in DOMAIN vdb}

SaveReturnsStoredIndex ==
    ret.op = "SaveValidatorInformation" =>
        /\ ret.err = Nil
        /\ validatorKey(ret.info.PublicKey) \in DOMAIN vdb
        /\ ret.info.Index = StoredValidator(validatorKey(ret.info.PublicKey)).Index

StoredIndexKept ==
    \A k \in DOMAIN vdb :
        /\ k \in DOMAIN vdb'
        /\ jsonUnmarshalValidator(vdb'[k]).Index = jsonUnmarshalValidator(vdb[k]).Index

\* C1: every SaveValidatorInformation returns nil and leaves in the passed
\* record the index stored for its public key, and the index stored for a
\* public key never changes once it is stored: the index is assigned by the
\* first save and every later save of the key yields that same index.
C1_IndexAssignedOnce == []SaveReturnsStoredIndex /\ [][StoredIndexKept]_vars

\* a save of a key that was stored before, with other operators, has just
\* returned the index of the first save (not the caller's, not a new one)
C1_Witness ==
    /\ ret.op = "SaveValidatorInformation"
    /\ validatorKey(ret.info.PublicKey) \in DOMAIN vdb
    /\ StoredValidator(validatorKey(ret.info.PublicKey)).Operators # ret.info.Operators
    /\ ret.info.Index = 1
    /\ Cardinality(DOMAIN vdb) = 3

NoSharedIndex ==
    \A k1 \in DOMAIN vdb, k2 \in DOMAIN vdb :
        k1 # k2 => StoredValidator(k1).Index # StoredValidator(k2).Index

NewIndexGreater ==
    \A k \in DOMAIN vdb' \ DOMAIN vdb : \A j \in DOMAIN vdb :
        jsonUnmarshalValidator(vdb'[k]).Index > jsonUnmarshalValidator(vdb[j]).Index

\* C2: a public key stored for the first time gets an index strictly greater
\* than the index of every validator stored before it, and no two stored
\* public keys ever share an index, whatever the interleaving of the saves.
C2_StrictlyIncreasingIndex == []NoSharedIndex /\ [][NewIndexGreater]_vars

\* a save of the third new key has just returned: it got index 2, above the
\* two stored before it
C2_Witness ==
    /\ ret.op = "SaveValidatorInformation"
    /\ ret.info.Index = 2
    /\ Cardinality(DOMAIN vdb) = 3
    /\ NoSharedIndex

ListedSet == {ret.validators[i] : i \in DOMAIN ret.validators}

\* C3: ListValidators(from, to) returns exactly the stored entries with
\* index >= from when to = 0, and exactly those with from <= index <= to
\* when to > 0, each once.
C3_ListValidatorsRange ==
    ret.op = "ListValidators" =>
        /\ ret.err = Nil
        /\ Cardinality(ListedSet) = Len(ret.validators)
        /\ ret.to = 0 =>
             ListedSet = {vi \in StoredValidators : vi.Index >= ret.from}
        /\ ret.to > 0 =>
             ListedSet = {vi \in StoredValidators :
                             vi.Index >= ret.from /\ vi.Index <= ret.to}

\* a bounded listing that keeps one entry and leaves out one below from,
\* and an entry with index = to is kept
C3_Witness ==
    /\ ret.op = "ListValidators"
    /\ ret.to > 0
    /\ \E vi \in StoredValidators : vi.Index < ret.from
    /\ \E vi \in StoredValidators : vi.Index > ret.to
    /\ \E vi \in ListedSet : vi.Index = ret.to

\* an unbounded listing (to = 0) that returns entries above from
C3_WitnessUnbounded ==
    /\ ret.op = "ListValidators"
    /\ ret.to = 0
    /\ ret.from = 1
    /\ Len(ret.validators) = 2

(***************************************************************************)
(* Properties of the signer storage                                        *)
(***************************************************************************)

RejectedSaveLeavesStore ==
    (ret'.op = "SaveHighestProposal" /\ (ret'.slot = 0 \/ ret'.pubKey = NilBytes)) =>
        /\ ret'.pubKey # NilBytes => ret'.err = ErrInvalidSlot
        /\ ret'.pubKey = NilBytes => ret'.err = ErrNilPubKeySave
        /\ db' = db
        /\ \A pk \in PubKeyArgs :
              retrieveHighestProposal(db', pk) = retrieveHighestProposal(db, pk)

\* C4: SaveHighestProposal(pubKey, 0) with a non-nil pubKey returns the
\* invalid-slot error, a nil pubKey is rejected with the nil-pubKey error,
\* and either failed call leaves the store as it was, so that
\* RetrieveHighestProposal returns for every pubKey what it returned before.
C4_ZeroSlotRejected == [][RejectedSaveLeavesStore]_vars

\* slot 0 has just been rejected for a pubKey whose stored slot 100 is kept
C4_Witness ==
    /\ ret.op = "SaveHighestProposal"
    /\ ret.slot = 0
    /\ ret.pubKey # NilBytes
    /\ ret.err = ErrInvalidSlot
    /\ retrieveHighestProposal(db, ret.pubKey) = [slot |-> 100, found |-> TRUE, err |-> Nil]

SavedSlotIsStored ==
    (ret.op = "SaveHighestProposal" /\ ret.err = Nil) =>
        /\ ret.slot > 0
        /\ ret.pubKey # NilBytes
        /\ retrieveHighestProposal(db, ret.pubKey) =
              [slot |-> ret.slot, found |-> TRUE, err |-> Nil]

RetrieveAfterSave ==
    (/\ ret.op = "SaveHighestProposal"
     /\ ret.err = Nil
     /\ ret'.op = "RetrieveHighestProposal"
     /\ ret'.pubKey = ret.pubKey) =>
        ret'.res = [slot |-> ret.slot, found |-> TRUE, err |-> Nil]

\* C5: after a successful SaveHighestProposal(pubKey, s), with s > 0 and
\* pubKey not nil, the store holds s for pubKey, and a RetrieveHighestProposal
\* of that pubKey that follows it returns (s, true, nil).
C5_SaveThenRetrieve == []SavedSlotIsStored /\ [][RetrieveAfterSave]_vars

\* RetrieveHighestProposal has just returned (300, true, nil): a slot of two
\* bytes, saved before
C5_Witness ==
    /\ ret.op = "RetrieveHighestProposal"
    /\ ret.res = [slot |-> 300, found |-> TRUE, err |-> Nil]

AccountKey(id) == <<objPrefix(accountsPrefix), accountsPath(id)>>
WalletKey == <<objPrefix(walletPrefix), walletPath>>

AccountBlobsSealed ==
    \A id \in DOMAIN written :
        /\ AccountKey(id) \in DOMAIN db
        /\ written[id].key # "" =>
              /\ db[AccountKey(id)].kind = "gcm"
              /\ db[AccountKey(id)] # jsonMarshalAccount(written[id].account)
        /\ written[id].key = "" =>
              db[AccountKey(id)] = jsonMarshalAccount(written[id].account)

WalletBlobClear ==
    walletWrittenUnder # Nil =>
        /\ WalletKey \in DOMAIN db
        /\ db[WalletKey].kind = "raw"

WalletBlobSealed ==
    (walletWrittenUnder # Nil /\ walletWrittenUnder # "") =>
        /\ WalletKey \in DOMAIN db
        /\ db[WalletKey].kind = "gcm"

\* C6 as stated: every blob that SaveWallet or SaveAccount wrote while the
\* key was non-empty is stored as ciphertext, and in the clear when the key
\* was empty.
C6_AllBlobsSealed == AccountBlobsSealed /\ WalletBlobSealed

\* C6 amended: every account blob that SaveAccount wrote while the key was
\* non-empty is stored as ciphertext, never as the clear marshalled account,
\* and in the clear when the key was empty; the wallet blob that SaveWallet
\* writes is stored in the clear whatever the key.
C6_AccountBlobsSealed == AccountBlobsSealed /\ WalletBlobClear

\* one account sealed under k1, another stored in the clear, and a wallet
\* written while the key was k1
C6_Witness ==
    /\ DOMAIN written = AccountIDs
    /\ \E id \in AccountIDs : written[id].key = "k1" /\ db[AccountKey(id)].kind = "gcm"
    /\ \E id \in AccountIDs : written[id].key = "" /\ db[AccountKey(id)].kind = "raw"
    /\ walletWrittenUnder = "k1"

\* the largest payload that is encrypted and decrypted
MaxPayloadLen == 2
PayloadBytes == {0, 255}
Payloads == UNION {[1 .. n -> PayloadBytes] : n \in 0 .. MaxPayloadLen}

PayloadRoundTrip ==
    \A p \in Payloads, k \in EncryptionKeys, n \in Nonces :
        /\ decrypt(encrypt(Raw(p), k, n), k) = [data |-> Raw(p), err |-> Nil]
        /\ decryptData(encryptData(Raw(p), k, n), k) = [data |-> Raw(p), err |-> Nil]

AccountRoundTrip ==
    (/\ ret.op = "OpenAccount"
     /\ ret.found
     /\ ret.id \in DOMAIN written
     /\ written[ret.id].key = ret.key) =>
        /\ ret.err = Nil
        /\ ret.account = written[ret.id].account

\* C7: decrypt(encrypt(p, k), k) = p for every payload p and key k, and
\* OpenAccount returns the account that SaveAccount stored whenever the key
\* in force at the read is the key that was in force at the write.
C7_EncryptDecryptRoundTrip == PayloadRoundTrip /\ AccountRoundTrip

\* OpenAccount has just returned, under k2, the account saved under k2
C7_Witness ==
    /\ ret.op = "OpenAccount"
    /\ ret.key = "k2"
    /\ ret.id \in DOMAIN written
    /\ written[ret.id].key = "k2"
    /\ ret.account = written[ret.id].account
    /\ ret.account.Name = 2

OpenWithWrongKey ==
    (/\ ret.op = "OpenAccount"
     /\ ret.found
     /\ ret.id \in DOMAIN written
     /\ written[ret.id].key # ret.key) =>
        /\ ret.err = ErrCantDecrypt
        /\ ret.account = NoAccount

ListWithWrongKey ==
    (/\ ret.op = "ListAccounts"
     /\ \E id \in DOMAIN written : written[id].key # ret.key) =>
        ret.err = ErrCantDecrypt

\* C8: a read (OpenAccount, ListAccounts) under a key other than the key
\* the account blob was written under returns ErrCantDecrypt, never an
\* account and never another error.
C8_WrongKeyCantDecrypt == OpenWithWrongKey /\ ListWithWrongKey

\* the part of C8 that the code keeps: OpenAccount under a non-empty wrong
\* key returns ErrCantDecrypt and no account
C8_OpenWithWrongNonEmptyKey ==
    (/\ ret.op = "OpenAccount"
     /\ ret.found
     /\ ret.id \in DOMAIN written
     /\ written[ret.id].key # ret.key
     /\ ret.key # "") =>
        /\ ret.err = ErrCantDecrypt
        /\ ret.account = NoAccount

InAccountCall(p) == call[p].op \in {"SaveAccount", "OpenAccount", "ListAccounts"}

KeyStableDuringCalls ==
    (\E p \in Procs : InAccountCall(p)) => encryptionKey' = encryptionKey

OneKeyPerCall ==
    /\ \A p \in Procs :
          call[p].op = "ListAccounts" => Cardinality(call[p].keysRead) <= 1
    /\ ret.op = "ListAccounts" => Cardinality(ret.keysRead) <= 1

\* C9: while a SaveAccount, OpenAccount or ListAccounts holds the lock, no
\* step writes the encryption key, and all the blobs of one ListAccounts
\* scan are decrypted under a single key value.
C9_KeyReadUnderLock == []OneKeyPerCall /\ [][KeyStableDuringCalls]_vars

\* a ListAccounts scan has just returned two accounts, both decrypted under
\* k1, while the other process is inside OpenAccount
C9_Witness ==
    /\ ret.op = "ListAccounts"
    /\ Len(ret.accounts) = 2
    /\ ret.keysRead = {"k1"}
    /\ \E p \in Procs : call[p].op = "OpenAccount"

(***************************************************************************)
(* Properties of the validator runtime                                     *)
(***************************************************************************)

\* C10: in read-mode ProcessMsg returns normally for every message, with
\* the handler run to completion and nothing placed on the queue.
C10_ReadModeReturnsNormally ==
    (ret.op = "ProcessMsg" /\ readMode) =>
        /\ ret.outcome = "returned"
        /\ ret.handled
        /\ ~ret.enqueued
        /\ queue = <<>>
        /\ status = "running"

\* the part of C10 that the code keeps: every message but a valid one of
\* type Sync is handled inline and ProcessMsg returns
C10_ReadModeReturnsButOnSync ==
    (ret.op = "ProcessMsg" /\ readMode
         /\ ~(ret.msg.type = SSVSyncMsgType /\ ret.msg.valid)) =>
        /\ ret.outcome = "returned"
        /\ ret.handled
        /\ ~ret.enqueued
        /\ queue = <<>>

\* the queue that the kind of a message selects
QueueOfKind(msg) ==
    IF msg.role = RoleTypeAttester THEN "AttestQueue"
    ELSE IF msg.role = RoleTypeProposer THEN "proposeQueue"
    ELSE "worker"

RoutedByKind ==
    (ret.op = "ProcessMsg" /\ ~readMode) => ret.on = {QueueOfKind(ret.msg)}

\* a message is dropped only by messages of its own kind
FloodIsolated ==
    (ret.op = "ProcessMsg" /\ ~readMode /\ ~ret.enqueued) =>
        \E i \in DOMAIN queue : queue[i].role = ret.msg.role

\* C11: in normal mode ProcessMsg puts each message on exactly one queue,
\* the one its kind selects (attestation, proposal, or the general worker
\* queue), so that a flood of one duty cannot fill the queue of another.
C11_RoutedByKind == RoutedByKind /\ FloodIsolated

\* the second half of C11 alone: a message of one duty is never dropped
\* because messages of another duty fill the queue
C11_FloodIsolated == FloodIsolated

QueueWithinCapacity == Len(queue) <= Buffer

FullQueueDrops ==
    (~readMode /\ calls' = calls + 1 /\ Len(queue) = Buffer) =>
        /\ queue' = queue
        /\ ret'.op = "ProcessMsg"
        /\ ret'.outcome = "returned"
        /\ ~ret'.enqueued
        /\ status' = "running"

\* C12: TryEnqueue on a full queue returns at once with a drop signal and
\* the message is discarded, and under every interleaving of the producers
\* and the worker the queue never holds more than its capacity (Buffer).
C12_QueueNeverExceedsCapacity == []QueueWithinCapacity /\ [][FullQueueDrops]_vars

\* a proposer's message has just been dropped on a queue that the flood of
\* attester messages filled up to its capacity
C12_Witness ==
    /\ ret.op = "ProcessMsg"
    /\ ~readMode
    /\ ~ret.enqueued
    /\ ret.msg.role = RoleTypeProposer
    /\ Len(queue) = Buffer
    /\ \A i \in DOMAIN queue : queue[i].role = RoleTypeAttester

\* C13: no message stalls the queue: whatever the worker takes off the
\* queue, the handler returns to the drain loop, and every message that was
\* enqueued is handled in the end.
C13_QueueNeverStalls == [](queue # <<>> => <>(queue = <<>> /\ status = "running"))

\* the part of C13 that the code keeps: the queue is drained for as long as
\* no handler call has panicked
C13_DrainedUntilPanic == (queue # <<>>) ~> (queue = <<>> \/ status = "panicked")

\* the last step ran messageHandler on ret.msg and it returned
HandlerRan ==
    \/ ret.op = "messageHandler" /\ ret.outcome = "returned"
    \/ ret.op = "ProcessMsg" /\ readMode /\ ret.outcome = "returned"

Unmanaged(msg) == msg.role # RoleTypeAttester

\* C14: ControllerForIdentifier returns the controller registered for the
\* identifier's role, nil for a role this validator does not manage, and the
\* message handler drops a message whose role has no controller: it forwards
\* it neither to consensus processing nor to signature collection.
C14_NilControllerDrops ==
    HandlerRan =>
        /\ ret.ctrl = (IF Unmanaged(ret.msg) THEN NoController ELSE "controller")
        /\ Unmanaged(ret.msg) => ret.dispatched = "none"

\* the part of C14 that holds: the lookup returns nil for every role but
\* the attester's, and handling a message of such a role leaves the
\* controller and the signature state as they were
NilControllerNoChange ==
    ((\/ ret'.op = "messageHandler"
      \/ ret'.op = "ProcessMsg" /\ readMode) /\ Unmanaged(ret'.msg)) =>
        UNCHANGED <<consensusMsgs, decided, decidedReports, postConsensusSigs>>

C14_NilControllerNoChange ==
    /\ [](HandlerRan =>
            ret.ctrl = (IF Unmanaged(ret.msg) THEN NoController ELSE "controller"))
    /\ [][NilControllerNoChange]_vars

AtMostOneReport ==
    \A r \in Roles :
        /\ decidedReports[r] <= 1
        /\ decided[r] # Nil <=> decidedReports[r] = 1

DecidedStable ==
    \A r \in Roles :
        decided[r] # Nil =>
            /\ decided'[r] = decided[r]
            /\ decidedReports'[r] = decidedReports[r]
            /\ ret'.msg.role = r => ~ret'.report

HandlerCalled ==
    ret.op = "messageHandler" \/ (ret.op = "ProcessMsg" /\ readMode)

Undecodable(msg) ==
    msg.type \in {SSVConsensusMsgType, SSVPostConsensusMsgType} /\ ~msg.wellFormed

DroppedBeforeDispatch ==
    (HandlerCalled /\ (~ret.msg.valid \/ Undecodable(ret.msg))) =>
        ret.dispatched = "none"

ForwardedByType ==
    (HandlerCalled /\ ret.msg.valid /\ ret.msg.wellFormed) =>
        /\ ret.msg.type = SSVConsensusMsgType => ret.dispatched = "processConsensusMsg"
        /\ ret.msg.type = SSVPostConsensusMsgType =>
               ret.dispatched = "processPostConsensusSig"

HandledNext == ret'.op = "messageHandler" \/ (ret'.op = "ProcessMsg" /\ readMode)

DroppedLeavesState ==
    (HandledNext /\ (~ret'.msg.valid \/ Undecodable(ret'.msg))) =>
        UNCHANGED <<consensusMsgs, decided, decidedReports, postConsensusSigs>>

ForwardedToOneSide ==
    HandledNext =>
        /\ ret'.msg.type = SSVConsensusMsgType => UNCHANGED postConsensusSigs
        /\ ret'.msg.type = SSVPostConsensusMsgType =>
               UNCHANGED <<consensusMsgs, decided, decidedReports>>

\* C17: a message that fails validation, or whose payload fails to decode,
\* is dropped before any dispatch and no controller or signature state
\* changes; a well-formed Consensus message goes to consensus processing
\* only and a well-formed PostConsensus message to signature collection only.
C17_FailClosedDispatch ==
    /\ [](DroppedBeforeDispatch /\ ForwardedByType)
    /\ [][DroppedLeavesState /\ ForwardedToOneSide]_vars

\* after a well-formed attester Consensus message was forwarded, the worker
\* has just dropped a valid Consensus message whose data does not decode
C17_Witness ==
    /\ ret.op = "messageHandler"
    /\ ret.msg.valid
    /\ ret.msg.type = SSVConsensusMsgType
    /\ ret.msg.role = RoleTypeAttester
    /\ ~ret.msg.wellFormed
    /\ ret.dispatched = "none"
    /\ ret.err # Nil
    /\ consensusMsgs[RoleTypeAttester] = 1
    /\ postConsensusSigs[RoleTypeAttester] = 0

\* C16: OpenAccount returns nil,nil if no account was found: for an account
\* id with nothing stored (never saved, or deleted), it returns a nil account
\* and a nil error.
C16_OpenMissingReturnsNilNil ==
    (ret.op = "OpenAccount" /\ ~ret.found) =>
        /\ ret.account = NoAccount
        /\ ret.err = Nil

\* what the code returns instead: a nil account with the error "account not
\* found"
C16_OpenMissingReturnsNotFound ==
    (ret.op = "OpenAccount" /\ ~ret.found) =>
        /\ ret.account = NoAccount
        /\ ret.err = ErrAccountNotFound

(***************************************************************************)
(* Properties of the eth1 event                                            *)
(***************************************************************************)

NotifiedInOrder ==
    ret.op = "NotifyAll" =>
        /\ Len(ret.updates) = Len(ObserverList)
        /\ \A i \in DOMAIN ObserverList :
              /\ ret.updates[i].observer = ObserverList[i]
              /\ ret.updates[i].log = Log
        /\ \A o \in Observers :
              Cardinality({i \in DOMAIN ret.updates : ret.updates[i].observer = o})
                  = (IF \E i \in DOMAIN ObserverList : ObserverList[i] = o THEN 1 ELSE 0)

NotifyKeepsEvent ==
    ret'.op = "NotifyAll" => UNCHANGED <<ObserverList, Log>>

C19_LastWriteWins ==
    (ret.op = "RetrieveHighestProposal" /\ ret.pubKey \in SigningKeys) =>
        ret.res = (IF proposed[ret.pubKey].last = 0
                   THEN [slot |-> 0, found |-> FALSE, err |-> Nil]
                   ELSE [slot |-> proposed[ret.pubKey].last, found |-> TRUE,
                         err |-> Nil])

\* slot 1 has just been retrieved for a public key that slot 300 was saved
\* for before
C19_Witness ==
    /\ ret.op = "RetrieveHighestProposal"
    /\ ret.pubKey = "pk1"
    /\ ret.res = [slot |-> 1, found |-> TRUE, err |-> Nil]
    /\ proposed["pk1"].max = 300

\* nothing was retrieved for a public key whose proposal was removed
C19_WitnessRemoved ==
    /\ ret.op = "RetrieveHighestProposal"
    /\ ret.pubKey = "pk1"
    /\ ret.res = [slot |-> 0, found |-> FALSE, err |-> Nil]
    /\ proposed["pk1"].max = 300

ProposalRecord(store, pk) == Get(store, objPrefix(highestProposalPrefix), pk)
AttestationRecord(store, pk) == Get(store, objPrefix(highestAttPrefix), pk)

ProposalStepIsolated ==
    ret'.op \in {"SaveHighestProposal", "RemoveHighestProposal"} =>
        \A pk \in PubKeyArgs :
            /\ AttestationRecord(db', pk) = AttestationRecord(db, pk)
            /\ retrieveHighestAttestation(db', pk) = retrieveHighestAttestation(db, pk)
            /\ pk # ret'.pubKey =>
                  /\ ProposalRecord(db', pk) = ProposalRecord(db, pk)
                  /\ retrieveHighestProposal(db', pk) = retrieveHighestProposal(db, pk)

AttestationStepIsolated ==
    ret'.op \in {"SaveHighestAttestation", "RemoveHighestAttestation"} =>
        \A pk \in PubKeyArgs :
            /\ ProposalRecord(db', pk) = ProposalRecord(db, pk)
            /\ retrieveHighestProposal(db', pk) = retrieveHighestProposal(db, pk)
            /\ pk # ret'.pubKey =>
                  /\ AttestationRecord(db', pk) = AttestationRecord(db, pk)
                  /\ retrieveHighestAttestation(db', pk) =
                         retrieveHighestAttestation(db, pk)

\* C20: the high-water marks are isolated per public key and per kind: a
\* Save or Remove of the highest proposal of one public key leaves the
\* proposal of every other key and every attestation record as they were,
\* and a Save or Remove of the highest attestation leaves every proposal
\* record and the attestation of every other key as they were.
C20_MarksIsolated == [][ProposalStepIsolated /\ AttestationStepIsolated]_vars

\* the proposal of pk1 has just been removed while the proposal of pk2 and
\* the attestations of both keys stay stored
C20_Witness ==
    /\ ret.op = "RemoveHighestProposal"
    /\ ret.pubKey = "pk1"
    /\ ~ProposalRecord(db, "pk1").found
    /\ ProposalRecord(db, "pk2").found
    /\ AttestationRecord(db, "pk1").found
    /\ AttestationRecord(db, "pk2").found

(***************************************************************************)
(* Further properties of the signer storage and the validators catalog     *)
(***************************************************************************)

StoredAsWritten ==
    \A id \in DOMAIN written :
        \E nonce \in Nonces :
            db[AccountKey(id)] =
                encryptData(jsonMarshalAccount(written[id].account),
                            written[id].key, nonce)

OpensExactlyUnderItsKey ==
    (ret.op = "OpenAccount" /\ ret.found /\ ret.id \in DOMAIN written) =>
        /\ ret.err = Nil <=> ret.key = written[ret.id].key
        /\ ret.err = Nil => ret.account = written[ret.id].account
        /\ ret.err # Nil => ret.account = NoAccount

SetKeyWritesKeyOnly ==
    ret'.op = "SetEncryptionKey" =>
        /\ encryptionKey' = ret'.key
        /\ UNCHANGED <<db, lock, call, walletWrittenUnder, proposed>>

\* C21: SetEncryptionKey changes the key field only and rewrites no stored
\* blob: an account saved under a key (the empty key too) stays stored as it
\* was written across later SetEncryptionKey calls, and OpenAccount succeeds
\* for it exactly when the key in force is the key it was saved under, again
\* so once the key is set back.
C21_SetKeyChangesKeyOnly ==
    /\ [](StoredAsWritten /\ OpensExactlyUnderItsKey)
    /\ [][SetKeyWritesKeyOnly]_vars

\* an account saved under k1 has just been opened under k1 after another
\* key had been set in between
C21_Witness ==
    /\ ret.op = "OpenAccount"
    /\ ret.err = Nil
    /\ ret.key = "k1"
    /\ ret.id \in DOMAIN written
    /\ written[ret.id].key = "k1"
    /\ written[ret.id].rekeyed
    /\ ret.account = written[ret.id].account

\* an account saved in the clear has just failed to open under k1
C21_WitnessFails ==
    /\ ret.op = "OpenAccount"
    /\ ret.found
    /\ ret.err # Nil
    /\ ret.key = "k1"
    /\ ret.id \in DOMAIN written
    /\ written[ret.id].key = ""

StoredIsFirstSaved ==
    \A pk \in DOMAIN firstSaved :
        /\ validatorKey(pk) \in DOMAIN vdb
        /\ StoredValidator(validatorKey(pk)) = firstSaved[pk]

GetReturnsFirstSaved ==
    (ret.op = "GetValidatorInformation" /\ ret.pubKey \in DOMAIN firstSaved) =>
        ret.res = [info |-> firstSaved[ret.pubKey], found |-> TRUE, err |-> Nil]

FoundSaveWritesNothing ==
    \A p \in Procs :
        (vpc[p] = "save_found" /\ vpc'[p] = "idle") =>
            /\ vdb' = vdb
            /\ ret'.op = "SaveValidatorInformation"
            /\ ret'.err = Nil
            /\ ret'.info = [vinfo[p] EXCEPT
                              !.Index = firstSaved[vinfo[p].PublicKey].Index]

\* C22: SaveValidatorInformation for a public key that is stored already
\* writes nothing: the stored record is the same before and after, also when
\* the passed record has other operators; the call only overwrites the Index
\* of the caller's record with the stored index, and GetValidatorInformation
\* keeps returning the record of the first save.
C22_SaveExistingWritesNothing ==
    /\ [](StoredIsFirstSaved /\ GetReturnsFirstSaved)
    /\ [][FoundSaveWritesNothing]_vars

\* a save of a stored key with operators other than the stored ones has just
\* returned: the caller's record has the stored index and its own operators,
\* and the store holds the record of the first save
C22_Witness ==
    /\ ret.op = "SaveValidatorInformation"
    /\ ret.info.PublicKey \in DOMAIN firstSaved
    /\ ret.info.Operators # firstSaved[ret.info.PublicKey].Operators
    /\ ret.info.Index = firstSaved[ret.info.PublicKey].Index
    /\ ret.info.Index # 7
    /\ StoredValidator(validatorKey(ret.info.PublicKey)) = firstSaved[ret.info.PublicKey]

====
